---- MODULE Spec2Model ----
(***************************************************************************)
(* Model of the lowering engine of src/src/parser/llvm_ir_generater.rs:    *)
(* LLVMIRGenerater walks a syntax tree and emits instructions into an LLVM *)
(* module through a builder, resolving identifiers in a scoped symbol      *)
(* table.                                                                  *)
(*                                                                         *)
(* The traversal is depth first and single threaded.  One action is one    *)
(* handler call of the traversal: the prologue of function_gen, one        *)
(* dispatch_node call of its body loop, the end of function_gen (where the *)
(* scope guard is released), and the end of ir_gen (module verification).  *)
(* The syntax tree is the input: each action draws the node it lowers from *)
(* a finite set of nodes, and `ast` records the tree read so far.          *)
(*                                                                         *)
(* `gen` and `twin` are two generator instances, each created by new(),    *)
(* that lower the same tree node by node.                                  *)
(***************************************************************************)
EXTENDS Integers, Sequences, FiniteSets, TLC

VARIABLES ast, gen, twin

vars == <<ast, gen, twin>>

(***************************************************************************)
(* Bounds of the model.                                                    *)
(***************************************************************************)
\* Syntax nodes (function definitions and statements) in one tree.
MaxNodes == 4
\* Statements of a function of SpecVars.
MaxStmts == 4
\* Width of the model's integer type, which stands for the 64-bit integer
\* type (i64) of the generator: values wrap modulo 2^IntBits.
IntBits == 4

MinInt == -(2 ^ (IntBits - 1))
MaxInt == (2 ^ (IntBits - 1)) - 1
\* Two's complement wrap-around of the integer type.
Wrap(x) == ((x - MinInt) % (2 ^ IntBits)) + MinInt

(***************************************************************************)
(* Tokens and syntax nodes (token.rs; the tree is read through data(),     *)
(* token(), ident_name() and children_ids()).                              *)
(***************************************************************************)
NoTok == [t |-> "None", s |-> "", n |-> 0]
Identifier(name) == [t |-> "Identifier", s |-> name, n |-> 0]
Number(v) == [t |-> "Number", s |-> "SignedInt", n |-> v]
Operator(o) == [t |-> "Operator", s |-> o, n |-> 0]
KeyWord(k) == [t |-> "KeyWord", s |-> k, n |-> 0]

Terminal(tok) == [kind |-> "Terminal", tok |-> tok, childs |-> <<>>]
Node(kind, childs) == [kind |-> kind, tok |-> NoTok, childs |-> childs]

\* data(id).symbol(): the identifier a terminal wraps, "" for None.
ident_name(node) ==
    IF node.kind = "Terminal" /\ node.tok.t = "Identifier" THEN node.tok.s ELSE ""

(***************************************************************************)
(* Backend values (AnyValueEnum).  k is the variant: "fn" a function       *)
(* handle, "const" an integer constant n, "arg" parameter n of function f, *)
(* "int" / "ptr" / "bool" the result of instruction n of block b of        *)
(* function f (an integer, an address, a comparison result), "cbool" a     *)
(* constant comparison result n, "bb" a basic block, "none" no value.      *)
(***************************************************************************)
Val(k, f, b, n) == [k |-> k, f |-> f, b |-> b, n |-> n]
NoVal == Val("none", 0, 0, 0)
FnVal(f) == Val("fn", f, 0, 0)
ConstVal(n) == Val("const", 0, 0, n)
ArgVal(f, i) == Val("arg", f, 0, i)
BlockRef(f, b) == Val("bb", f, b, 0)

\* AnyValueEnum::IntValue: into_int_value() / as_int_value() succeed on it.
is_int_value(v) == v.k \in {"const", "arg", "int", "bool", "cbool"}
\* AnyValueEnum::PointerValue.
is_pointer_value(v) == v.k = "ptr"
\* AnyValueEnum::FunctionValue.
is_function_value(v) == v.k = "fn"
\* any_value_into_basic_value(v) is Some.
is_basic_value(v) == is_int_value(v) \/ is_pointer_value(v)

Instr(op, x, y, z) == [op |-> op, x |-> x, y |-> y, z |-> z]
Terminators == {"ret", "br"}

(***************************************************************************)
(* Scoped symbol table (SymbolManager, ScopeGuard).  symbols is the stack  *)
(* of scopes, innermost last; a scope maps names to values.                *)
(***************************************************************************)
EmptyScope == [x \in {} |-> NoVal]

\* SymbolManager::new(): the global scope alone.
NewSymbols == <<EmptyScope>>

push_scope(symbols) == Append(symbols, EmptyScope)

pop_scope(symbols) == SubSeq(symbols, 1, Len(symbols) - 1)

\* push_symbol: bind name in the innermost scope, overwriting.
push_symbol(symbols, name, value) ==
    [symbols EXCEPT ![Len(symbols)] = (name :> value) @@ @]

\* lookup: innermost scope first; NoVal for None.
RECURSIVE lookup_from(_, _, _)
lookup_from(symbols, name, i) ==
    IF i = 0 THEN NoVal
    ELSE IF name \in DOMAIN symbols[i] THEN symbols[i][name]
    ELSE lookup_from(symbols, name, i - 1)

lookup(symbols, name) == lookup_from(symbols, name, Len(symbols))

\* The function values a scope binds.
ScopeFunctions(scope) ==
    {scope[x] : x \in {y \in DOMAIN scope : is_function_value(scope[y])}}

\* current_function: scopes are scanned innermost first and the first
\* function value met in a scope's iteration is returned.  The iteration
\* order of a scope's bindings is not fixed, so any function value of the
\* innermost scope that binds one can be the result; {} when no scope binds
\* one (unimplemented!()).
RECURSIVE current_function_from(_, _)
current_function_from(symbols, i) ==
    IF i = 0 THEN {}
    ELSE IF ScopeFunctions(symbols[i]) # {} THEN ScopeFunctions(symbols[i])
    ELSE current_function_from(symbols, i - 1)

current_function(symbols) == current_function_from(symbols, Len(symbols))

(***************************************************************************)
(* The generator (struct LLVMIRGenerater): symbols, module and builder are *)
(* its fields.  module is the sequence of functions, a function holds its  *)
(* basic blocks in order, a block its instructions in order.  builder is   *)
(* the block the cursor is at the end of (NoVal before any positioning).   *)
(* pc is where ir_gen stands: "top" in its loop over the root's children,  *)
(* "body" in the body loop of function_gen, "done" after Ok(()), "panic"   *)
(* after a panic (err names the panicking call).                           *)
(***************************************************************************)
\* LLVMIRGenerater::new
new ==
    [symbols |-> NewSymbols, module |-> <<>>, builder |-> NoVal,
     pc |-> "top", err |-> ""]

Panic(g, why) == [g EXCEPT !.pc = "panic", !.err = why]

Panicked(g) == g.pc = "panic"

\* A handler's result: the generator after it and the value it returns.
R(g, v) == [g |-> g, v |-> v]

\* Module::add_function: the new function is the last of the module.
add_function(g, name, nparams) ==
    [g EXCEPT !.module =
        Append(@, [name |-> name, nparams |-> nparams, blocks |-> <<>>])]

\* Context::append_basic_block(function, label): v is the new block.
append_basic_block(g, f, label) ==
    R([g EXCEPT !.module[f].blocks =
            Append(@, [label |-> label, instrs |-> <<>>])],
      BlockRef(f, Len(g.module[f].blocks) + 1))

\* Builder::position_at_end
position_at_end(g, bb) == [g EXCEPT !.builder = bb]

\* The builder appends an instruction at the cursor.
Insert(g, ins) ==
    [g EXCEPT !.module[g.builder.f].blocks[g.builder.b].instrs = Append(@, ins)]

\* The value the next instruction inserted at the cursor defines.
NextValue(g, k) ==
    Val(k, g.builder.f, g.builder.b,
        Len(g.module[g.builder.f].blocks[g.builder.b].instrs) + 1)

\* The six relational tests of IntPredicate, on signed integers.
Rel(pred, x, y) ==
    CASE pred = "icmp_eq" -> x = y
      [] pred = "icmp_ne" -> x # y
      [] pred = "icmp_sgt" -> x > y
      [] pred = "icmp_sge" -> x >= y
      [] pred = "icmp_slt" -> x < y
      [] pred = "icmp_sle" -> x <= y

Predicates ==
    {"icmp_eq", "icmp_ne", "icmp_sgt", "icmp_sge", "icmp_slt", "icmp_sle"}

build_alloca(g) == R(Insert(g, Instr("alloca", NoVal, NoVal, NoVal)), NextValue(g, "ptr"))

build_load(g, ptr) == R(Insert(g, Instr("load", ptr, NoVal, NoVal)), NextValue(g, "int"))

build_store(g, ptr, val) == Insert(g, Instr("store", val, ptr, NoVal))

\* build_int_add: the builder folds an addition of two constants into a
\* constant and inserts nothing.
build_int_add(g, lhs, rhs) ==
    IF lhs.k = "const" /\ rhs.k = "const"
    THEN R(g, ConstVal(Wrap(lhs.n + rhs.n)))
    ELSE R(Insert(g, Instr("add", lhs, rhs, NoVal)), NextValue(g, "int"))

\* build_int_compare: folded likewise when both operands are constants.
build_int_compare(g, pred, lhs, rhs) ==
    IF lhs.k = "const" /\ rhs.k = "const"
    THEN R(g, Val("cbool", 0, 0, IF Rel(pred, lhs.n, rhs.n) THEN 1 ELSE 0))
    ELSE R(Insert(g, Instr(pred, lhs, rhs, NoVal)), NextValue(g, "bool"))

build_conditional_branch(g, cond, tb, fb) == Insert(g, Instr("br", cond, tb, fb))

\* build_return(Some(v)) / build_return(None) with v = NoVal.
build_return(g, v) == Insert(g, Instr("ret", v, NoVal, NoVal))

\* push_identifier
push_identifier(g, ident, value) ==
    [g EXCEPT !.symbols = push_symbol(@, ident, value)]

\* A dereference that emits no load and hands the address on.
dereference_ptr_address(g, ptr) == R(g, ptr)

\* dereference_ptr: a load; the loaded value is an integer, so
\* dereference_basic returns it as it is.
dereference_ptr(g, ptr) == build_load(g, ptr)

\* llvm_basic_type: TRUE when the node is the keyword int (the type is then
\* i64); every other node panics.
llvm_basic_type(node) == node.tok = KeyWord("Int")

(***************************************************************************)
(* The handlers.  A handler that calls others in sequence is written as a  *)
(* chain of operators, each taking the result of the call before it: a     *)
(* panic of a call ends the handler with that panic.                       *)
(***************************************************************************)
RECURSIVE llvm_value(_, _), expr_gen(_, _), expr_loop(_, _, _, _)

\* The operand pattern of expr_gen on r = llvm_value(..): a pointer is
\* dereferenced, any other value goes through into_int_value().
into_int_operand(r) ==
    IF Panicked(r.g) THEN r
    ELSE IF is_pointer_value(r.v) THEN dereference_ptr(r.g, r.v)
    ELSE IF is_int_value(r.v) THEN r
    ELSE R(Panic(r.g, "into_int_value"), NoVal)

int_operand(g, node) == into_int_operand(llvm_value(g, node))

\* symbols.lookup(name) in llvm_value: None is unreachable!().
llvm_ident(g, v) == IF v = NoVal THEN R(Panic(g, "unreachable"), NoVal) ELSE R(g, v)

llvm_value(g, node) ==
    IF node.kind = "Terminal"
    THEN IF node.tok.t = "Identifier"
         THEN llvm_ident(g, lookup(g.symbols, node.tok.s))
         ELSE IF node.tok.t = "Number" /\ node.tok.s = "SignedInt"
         THEN R(g, ConstVal(node.tok.n))
         ELSE R(Panic(g, "unreachable"), NoVal)
    ELSE IF node.kind = "Expr" THEN expr_gen(g, node)
    ELSE R(Panic(g, "unreachable"), NoVal)

\* expr_gen after its first operand lhs: the loop starts at the first
\* operator.
expr_first(lhs, childs) ==
    IF Panicked(lhs.g) THEN lhs ELSE expr_loop(lhs.g, childs, 2, lhs.v)

expr_gen(g, node) ==
    IF Len(node.childs) < 3 THEN R(Panic(g, "assert"), NoVal)
    ELSE expr_first(int_operand(g, node.childs[1]), node.childs)

\* A loop of expr_gen that ends after its first turn.
expr_next_once(sum, childs, op) == sum

\* The end of one turn of the loop: sum replaces the accumulator and the
\* loop goes on while operators are left.
expr_next(sum, childs, op) ==
    IF op + 2 > Len(childs) THEN sum ELSE expr_loop(sum.g, childs, op + 2, sum.v)

\* The turn of the loop after its operand rhs: the operator token is
\* matched, only Add has an arm.
expr_turn(rhs, childs, op, lhs) ==
    IF Panicked(rhs.g) THEN rhs
    ELSE IF childs[op].tok = NoTok THEN R(Panic(rhs.g, "unwrap"), NoVal)
    ELSE IF childs[op].tok = Operator("Add")
    THEN expr_next(build_int_add(rhs.g, lhs, rhs.v), childs, op)
    ELSE R(Panic(rhs.g, "unreachable"), NoVal)

\* One turn of the loop of expr_gen; op is the position of the operator
\* (current_op + 1, positions counted from 1), lhs the accumulator.
expr_loop(g, childs, op, lhs) ==
    IF op + 1 > Len(childs) THEN R(Panic(g, "index"), NoVal)
    ELSE expr_turn(int_operand(g, childs[op + 1]), childs, op, lhs)

\* The store of assign_stmt: ptr goes through into_pointer_value(), val
\* through any_value_into_basic_value(..).unwrap().
assign_store(ptr, val) ==
    IF Panicked(val.g) THEN val.g
    ELSE IF ~is_pointer_value(ptr) THEN Panic(val.g, "into_pointer_value")
    ELSE IF ~is_basic_value(val.v) THEN Panic(val.g, "unwrap")
    ELSE build_store(val.g, ptr, val.v)

\* assign_stmt after the target ptr = llvm_value(ids[0]).
assign_source(ptr, ids) ==
    IF Panicked(ptr.g) THEN ptr.g
    ELSE assign_store(ptr.v, llvm_value(ptr.g, ids[2]))

\* assign_stmt
assign_stmt(g, node) ==
    IF Len(node.childs) < 2 THEN Panic(g, "index")
    ELSE assign_source(llvm_value(g, node.childs[1]), node.childs)

\* The body of the loop of variable_define after ptr = build_alloca(..):
\* the name is bound to the address.
define_variable(ptr, name) == push_identifier(ptr.g, name, ptr.v)

\* The loop of variable_define over the identifiers ids[i..].
RECURSIVE variable_define_from(_, _, _)
variable_define_from(g, ids, i) ==
    IF i > Len(ids) THEN g
    ELSE IF ident_name(ids[i]) = "" THEN Panic(g, "unwrap")
    ELSE variable_define_from(
             define_variable(build_alloca(g), ident_name(ids[i])), ids, i + 1)

\* variable_define
variable_define(g, node) ==
    IF Len(node.childs) < 1 THEN Panic(g, "index")
    ELSE IF node.childs[1].tok = NoTok THEN Panic(g, "unwrap")
    ELSE IF ~llvm_basic_type(node.childs[1]) THEN Panic(g, "unimplemented")
    ELSE variable_define_from(g, node.childs, 2)

\* return_stmt_gen on an identifier: ident_value(name) unwraps the lookup
\* and as_int_value() takes the value as an integer, without a load.
return_ident(g, value) ==
    IF value = NoVal THEN Panic(g, "unwrap")
    ELSE IF ~is_int_value(value) THEN Panic(g, "as_int_value")
    ELSE build_return(g, value)

\* return_stmt_gen on an expression, r its value.
return_expr(r) == IF Panicked(r.g) THEN r.g ELSE build_return(r.g, r.v)

\* return_stmt_gen
return_stmt_gen(g, node) ==
    LET ids == node.childs IN
    IF Len(ids) = 0 THEN build_return(g, NoVal)
    ELSE IF Len(ids) # 1 THEN Panic(g, "assert")
    ELSE IF ids[1].kind = "Terminal"
    THEN IF ids[1].tok.t = "Number" /\ ids[1].tok.s = "SignedInt"
         THEN build_return(g, ConstVal(ids[1].tok.n))
         ELSE IF ids[1].tok.t = "Identifier"
         THEN return_ident(g, lookup(g.symbols, ids[1].tok.s))
         ELSE Panic(g, "unimplemented")
    ELSE IF ids[1].kind = "Expr" THEN return_expr(expr_gen(g, ids[1]))
    ELSE Panic(g, "unimplemented")

\* The relational test an operator token of a conditional maps to, "" for
\* the arm unreachable!().
IntPredicate(tok) ==
    CASE tok = Operator("Equal") -> "icmp_eq"
      [] tok = Operator("NotEqual") -> "icmp_ne"
      [] tok = Operator("Greater") -> "icmp_sgt"
      [] tok = Operator("GreaterEqual") -> "icmp_sge"
      [] tok = Operator("Less") -> "icmp_slt"
      [] tok = Operator("LessEqual") -> "icmp_sle"
      [] OTHER -> ""

\* An end of if_stmt_gen that leaves the cursor where the body left it.
if_cursor_stays(g, fb) == g

\* The end of if_stmt_gen: the cursor moves to the end of the merge block.
if_move_to_end(g, fb) == IF Panicked(g) THEN g ELSE position_at_end(g, fb)

\* if_stmt_gen after the branch: with a fourth child the cursor moves to
\* the then block and return_stmt_gen lowers that child there.
if_body(g, childs, tb, fb) ==
    if_move_to_end(
        IF Len(childs) > 3 THEN return_stmt_gen(position_at_end(g, tb), childs[4])
        ELSE g,
        fb)

\* if_stmt_gen after the merge block fb was appended: the branch.
if_branch(fb, childs, if_result, tb) ==
    if_body(build_conditional_branch(fb.g, if_result, tb, fb.v), childs, tb, fb.v)

\* if_stmt_gen after the then block tb was appended to func.
if_merge_block(tb, childs, if_result, func) ==
    if_branch(append_basic_block(tb.g, func.f, "endif"), childs, if_result, tb.v)

\* The part of if_stmt_gen after the comparison, with func the result of
\* current_function(): the two blocks, the branch, the body, the cursor.
if_stmt_blocks(g, childs, if_result, func) ==
    if_merge_block(append_basic_block(g, func.f, "if"), childs, if_result, func)

\* if_stmt_gen after the comparison if_result: one generator for each
\* function current_function() can return.
if_current_function(if_result, childs) ==
    IF current_function(if_result.g.symbols) = {}
    THEN {Panic(if_result.g, "unimplemented")}
    ELSE {if_stmt_blocks(if_result.g, childs, if_result.v, func) :
             func \in current_function(if_result.g.symbols)}

\* if_stmt_gen after the right operand rhs = llvm_value(childs[2]), which
\* goes through into_int_value() as it is; the operator is matched and the
\* comparison built.
if_compare(lhs, rhs, childs) ==
    IF Panicked(rhs.g) THEN {rhs.g}
    ELSE IF ~is_int_value(rhs.v) THEN {Panic(rhs.g, "into_int_value")}
    ELSE IF childs[2].tok = NoTok THEN {Panic(rhs.g, "unwrap")}
    ELSE IF IntPredicate(childs[2].tok) = "" THEN {Panic(rhs.g, "unreachable")}
    ELSE if_current_function(
             build_int_compare(rhs.g, IntPredicate(childs[2].tok), lhs, rhs.v), childs)

\* if_stmt_gen after the left operand is an integer value.
if_rhs(lhs, childs) == if_compare(lhs.v, llvm_value(lhs.g, childs[3]), childs)

\* if_stmt_gen after l0 = llvm_value(childs[0]): a pointer is dereferenced,
\* any other value goes through any_value_into_basic_value(..).unwrap().
if_lhs(l0, childs) ==
    IF Panicked(l0.g) THEN {l0.g}
    ELSE IF is_pointer_value(l0.v) THEN if_rhs(dereference_ptr(l0.g, l0.v), childs)
    ELSE IF ~is_basic_value(l0.v) THEN {Panic(l0.g, "unwrap")}
    ELSE if_rhs(l0, childs)

\* if_stmt_gen: the set of generators it can leave.
if_stmt_gen(g, node) ==
    IF Len(node.childs) < 3 THEN {Panic(g, "index")}
    ELSE if_lhs(llvm_value(g, node.childs[1]), node.childs)

\* The contiguous prefix of FuncParam nodes of ids[i..].
RECURSIVE FuncParams(_, _)
FuncParams(ids, i) ==
    IF i > Len(ids) \/ ids[i].kind # "FuncParam" THEN <<>>
    ELSE <<ids[i]>> \o FuncParams(ids, i + 1)

\* The panic of the parameter loop of function_gen on params[i..], "" when
\* every parameter has the type int and a name.
RECURSIVE ParamPanic(_, _)
ParamPanic(params, i) ==
    IF i > Len(params) THEN ""
    ELSE IF Len(params[i].childs) < 2 THEN "index"
    ELSE IF params[i].childs[1].tok = NoTok THEN "unwrap"
    ELSE IF ~llvm_basic_type(params[i].childs[1]) THEN "unimplemented"
    ELSE IF ident_name(params[i].childs[2]) = "" THEN "unwrap"
    ELSE ParamPanic(params, i + 1)

\* A parameter loop that binds the names to the parameter values in the
\* reverse order.
RECURSIVE bind_params_reversed(_, _, _, _)
bind_params_reversed(g, f, params, idx) ==
    IF idx > Len(params) THEN g
    ELSE bind_params_reversed(
             push_identifier(g, ident_name(params[idx].childs[2]),
                             ArgVal(f, Len(params) - idx + 1)),
             f, params, idx + 1)

\* The loop of function_gen that binds parameter idx of function f to
\* args_name[idx].
RECURSIVE bind_params(_, _, _, _)
bind_params(g, f, params, idx) ==
    IF idx > Len(params) THEN g
    ELSE bind_params(
             push_identifier(g, ident_name(params[idx].childs[2]), ArgVal(f, idx)),
             f, params, idx + 1)

\* scope_guard: ScopeGuard::new pushes a scope.
scope_guard(g) == [g EXCEPT !.symbols = push_scope(@)]

\* The release of the scope guard pops the scope; it runs when function_gen
\* returns and when a panic unwinds through function_gen.
scope_guard_drop(g) == [g EXCEPT !.symbols = pop_scope(@)]

\* function_gen after the entry block bb was appended: the cursor moves
\* there, the parameters are bound and the body loop starts.
function_entry(bb, f, params) ==
    [bind_params(position_at_end(bb.g, bb.v), f, params, 1) EXCEPT !.pc = "body"]

\* function_gen opening the function's scope before the handle is bound:
\* the handle lands in the function's own scope.
function_scope_inner(g, f, fn_name, params) ==
    function_entry(
        append_basic_block(
            push_identifier(scope_guard(g), fn_name, FnVal(f)), f, fn_name),
        f, params)

\* function_gen after the function was added to the module as its f-th:
\* the handle is bound in the current scope, then the scope guard opens the
\* function's scope, then the entry block is appended.
function_scope(g, f, fn_name, params) ==
    function_entry(
        append_basic_block(
            scope_guard(push_identifier(g, fn_name, FnVal(f))), f, fn_name),
        f, params)

\* function_gen up to its body loop.
function_gen(g, node) ==
    LET ids == node.childs
        fn_name == ident_name(ids[2])
        params == FuncParams(ids, 3)
    IN  IF Len(ids) < 2 THEN Panic(g, "index")
        ELSE IF fn_name = "" THEN Panic(g, "unwrap")
        ELSE IF ParamPanic(params, 1) # "" THEN Panic(g, ParamPanic(params, 1))
        ELSE function_scope(add_function(g, fn_name, Len(params)),
                            Len(g.module) + 1, fn_name, params)

\* An end of function_gen that leaves the function's scope open.
function_gen_end_leak(g) == [g EXCEPT !.pc = "top"]

\* The end of function_gen: the scope guard is released.
function_gen_end(g) == [scope_guard_drop(g) EXCEPT !.pc = "top"]

\* A dispatch_node that skips a node of a kind without a handler.
dispatch_node_skip(g, node) ==
    CASE node.kind = "FuncDefine" -> {function_gen(g, node)}
      [] node.kind = "ReturnStmt" -> {return_stmt_gen(g, node)}
      [] node.kind = "IfStmt" -> if_stmt_gen(g, node)
      [] node.kind = "VariableDefine" -> {variable_define(g, node)}
      [] node.kind = "AssignStmt" -> {assign_stmt(g, node)}
      [] OTHER -> {g}

\* dispatch_node: the set of generators the handler of the node's kind can
\* leave; any other kind is unimplemented!().
dispatch_node(g, node) ==
    CASE node.kind = "FuncDefine" -> {function_gen(g, node)}
      [] node.kind = "ReturnStmt" -> {return_stmt_gen(g, node)}
      [] node.kind = "IfStmt" -> if_stmt_gen(g, node)
      [] node.kind = "VariableDefine" -> {variable_define(g, node)}
      [] node.kind = "AssignStmt" -> {assign_stmt(g, node)}
      [] OTHER -> {Panic(g, "unimplemented")}

\* One turn of the body loop of function_gen: a panic of the dispatched
\* handler unwinds through function_gen and releases its scope guard.
body_dispatch(g, node) ==
    {IF Panicked(r) THEN scope_guard_drop(r) ELSE r : r \in dispatch_node(g, node)}

(***************************************************************************)
(* Module verification (Module::verify, called at the end of ir_gen).      *)
(***************************************************************************)
\* A 64-bit integer operand of function f.
IsInt64(v, f) == v.k = "const" \/ (v.k \in {"arg", "int"} /\ v.f = f)

IsPtr(v, f) == v.k = "ptr" /\ v.f = f

IsBool(v, f) == v.k = "cbool" \/ (v.k = "bool" /\ v.f = f)

IsBlockOf(v, module, f) == v.k = "bb" /\ v.f = f /\ v.b \in 1..Len(module[f].blocks)

\* The operands of an instruction of function f have the types it needs and
\* belong to f; functions return a 64-bit integer.
InstrOk(ins, module, f) ==
    CASE ins.op = "alloca" -> TRUE
      [] ins.op = "load" -> IsPtr(ins.x, f)
      [] ins.op = "store" -> IsInt64(ins.x, f) /\ IsPtr(ins.y, f)
      [] ins.op = "add" -> IsInt64(ins.x, f) /\ IsInt64(ins.y, f)
      [] ins.op \in Predicates -> IsInt64(ins.x, f) /\ IsInt64(ins.y, f)
      [] ins.op = "br" ->
            IsBool(ins.x, f) /\ IsBlockOf(ins.y, module, f) /\ IsBlockOf(ins.z, module, f)
      [] ins.op = "ret" -> IsInt64(ins.x, f)

\* A block ends with its one terminator and holds none before it.
BlockOk(block) ==
    /\ Len(block.instrs) > 0
    /\ block.instrs[Len(block.instrs)].op \in Terminators
    /\ \A i \in 1..(Len(block.instrs) - 1) : block.instrs[i].op \notin Terminators

Verify(module) ==
    \A f \in 1..Len(module) : \A b \in 1..Len(module[f].blocks) :
        /\ BlockOk(module[f].blocks[b])
        /\ \A i \in 1..Len(module[f].blocks[b].instrs) :
              InstrOk(module[f].blocks[b].instrs[i], module, f)

\* The end of ir_gen: self.module.verify().unwrap(), then Ok(()).
ir_gen_end(g) ==
    IF Verify(g.module) THEN [g EXCEPT !.pc = "done"] ELSE Panic(g, "verify")

(***************************************************************************)
(* Execution of a lowered function (the execution engine runs the function *)
(* from its entry block).  Undef is the result of reading storage that was *)
(* never written, Invalid the result of running into ill-formed code.      *)
(***************************************************************************)
Undef == MaxInt + 1
Invalid == MaxInt + 2

\* The value of operand v in function f: st holds the results of the
\* instructions run so far and the contents of the addresses written.
Operand(v, f, args, st) ==
    CASE v.k \in {"const", "cbool"} -> v.n
      [] v.k = "arg" -> IF v.f = f /\ v.n \in 1..Len(args) THEN args[v.n] ELSE Invalid
      [] v.k \in {"int", "bool"} -> IF v \in DOMAIN st THEN st[v] ELSE Invalid
      [] OTHER -> Invalid

RECURSIVE Run(_, _, _, _, _, _)
Run(module, f, b, i, args, st) ==
    LET instrs == module[f].blocks[b].instrs
        ins == instrs[i]
        x == Operand(ins.x, f, args, st)
        y == Operand(ins.y, f, args, st)
        next(k, v) == Run(module, f, b, i + 1, args, (Val(k, f, b, i) :> v) @@ st)
    IN  IF i > Len(instrs) THEN Invalid
        ELSE CASE ins.op = "alloca" -> Run(module, f, b, i + 1, args, st)
               [] ins.op = "load" ->
                     IF ins.x.k # "ptr" THEN Invalid
                     ELSE next("int", IF ins.x \in DOMAIN st THEN st[ins.x] ELSE Undef)
               [] ins.op = "store" ->
                     IF ins.y.k # "ptr" \/ x = Invalid THEN Invalid
                     ELSE Run(module, f, b, i + 1, args, (ins.y :> x) @@ st)
               [] ins.op = "add" ->
                     IF x = Invalid \/ y = Invalid THEN Invalid
                     ELSE next("int", IF x = Undef \/ y = Undef THEN Undef ELSE Wrap(x + y))
               [] ins.op \in Predicates ->
                     IF x = Invalid \/ y = Invalid THEN Invalid
                     ELSE next("bool", IF x = Undef \/ y = Undef THEN Undef
                                       ELSE IF Rel(ins.op, x, y) THEN 1 ELSE 0)
               [] ins.op = "br" ->
                     IF x = Invalid \/ ~IsBlockOf(ins.y, module, f)
                                    \/ ~IsBlockOf(ins.z, module, f) THEN Invalid
                     ELSE IF x = Undef THEN Undef
                     ELSE Run(module, f, IF x = 1 THEN ins.y.b ELSE ins.z.b, 1, args, st)
               [] ins.op = "ret" -> x

\* The result of calling function f of the module with args.
Exec(module, f, args) ==
    IF Len(module[f].blocks) = 0 THEN Invalid
    ELSE Run(module, f, 1, 1, args, [v \in {} |-> 0])

(***************************************************************************)
(* Syntax trees.  The constructors build the nodes the parser hands over:  *)
(* the kinds are the variants of SyntaxType, the children are in the order *)
(* the handlers read them.                                                 *)
(***************************************************************************)
Ident(name) == Terminal(Identifier(name))
Lit(v) == Terminal(Number(v))
Op(o) == Terminal(Operator(o))
IntType == Terminal(KeyWord("Int"))
DoubleType == Terminal(KeyWord("Double"))

Expr(childs) == Node("Expr", childs)
Sum2(x, y) == Expr(<<x, Op("Add"), y>>)
Sum3(x, y, z) == Expr(<<x, Op("Add"), y, Op("Add"), z>>)
FuncParam(type, name) == Node("FuncParam", <<type, Ident(name)>>)
\* A function definition without its body statements, which the body loop
\* reads one by one.
FuncDefine(name, params) == Node("FuncDefine", <<IntType, Ident(name)>> \o params)
VariableDefine(type, names) ==
    Node("VariableDefine", <<type>> \o [i \in 1..Len(names) |-> Ident(names[i])])
AssignStmt(target, source) == Node("AssignStmt", <<target, source>>)
IfStmt(lhs, op, rhs, body) == Node("IfStmt", <<lhs, Op(op), rhs, body>>)
IfNoBody(lhs, op, rhs) == Node("IfStmt", <<lhs, Op(op), rhs>>)
ReturnStmt(x) == Node("ReturnStmt", <<x>>)
ReturnVoid == Node("ReturnStmt", <<>>)

\* The nodes of one top-level declaration read so far: the node itself and,
\* for a function definition, the statements of its body; open while
\* function_gen has not returned.
Decl(node) == [header |-> node, body |-> <<>>, open |-> TRUE]

RECURSIVE NodeCount(_)
NodeCount(tree) ==
    IF tree = <<>> THEN 0
    ELSE 1 + Len(tree[Len(tree)].body) + NodeCount(SubSeq(tree, 1, Len(tree) - 1))

(***************************************************************************)
(* Actions.  max bounds the number of nodes of the tree.                   *)
(***************************************************************************)
Init ==
    /\ ast = <<>>
    /\ gen = new
    /\ twin = new

\* ir_gen dispatches the next child of the root.
LowerTop(node, max) ==
    /\ gen.pc = "top"
    /\ NodeCount(ast) < max
    /\ gen' \in dispatch_node(gen, node)
    /\ twin' \in dispatch_node(twin, node)
    /\ ast' = Append(ast, Decl(node))

\* function_gen dispatches the next statement of the body.
LowerStmt(node, max) ==
    /\ gen.pc = "body"
    /\ NodeCount(ast) < max
    /\ gen' \in body_dispatch(gen, node)
    /\ twin' \in body_dispatch(twin, node)
    /\ ast' = [ast EXCEPT ![Len(ast)].body = Append(@, node)]

LowerFunction(nodes, max) ==
    \E node \in nodes : node.kind = "FuncDefine" /\ LowerTop(node, max)

LowerVariableDefine(nodes, max) ==
    \E node \in nodes : node.kind = "VariableDefine" /\ LowerStmt(node, max)

LowerAssign(nodes, max) ==
    \E node \in nodes : node.kind = "AssignStmt" /\ LowerStmt(node, max)

LowerIf(nodes, max) ==
    \E node \in nodes : node.kind = "IfStmt" /\ LowerStmt(node, max)

LowerReturn(nodes, max) ==
    \E node \in nodes : node.kind = "ReturnStmt" /\ LowerStmt(node, max)

\* A node of a kind dispatch_node has no handler for, among the root's
\* children or in a function body.
LowerUnsupported(nodes, max) ==
    \E node \in nodes :
        /\ node.kind \notin {"FuncDefine", "ReturnStmt", "IfStmt",
                             "VariableDefine", "AssignStmt"}
        /\ (LowerTop(node, max) \/ LowerStmt(node, max))

\* The body loop of function_gen ends and function_gen returns.
EndFunction ==
    /\ gen.pc = "body"
    /\ gen' = function_gen_end(gen)
    /\ twin' = function_gen_end(twin)
    /\ ast' = [ast EXCEPT ![Len(ast)].open = FALSE]

\* The loop of ir_gen ends: the module is verified and ir_gen returns.
EndIrGen ==
    /\ gen.pc = "top"
    /\ gen' = ir_gen_end(gen)
    /\ twin' = ir_gen_end(twin)
    /\ UNCHANGED ast

(***************************************************************************)
(* Spec: trees of any shape over a small vocabulary, with up to MaxNodes   *)
(* nodes: several top-level functions, supported and unsupported           *)
(* statements, declared and undeclared names.                              *)
(***************************************************************************)
Functions ==
    {FuncDefine(name, params) :
        name \in {"f", "g"},
        params \in {<<>>, <<FuncParam(IntType, "a"), FuncParam(IntType, "b")>>}}
    \cup {FuncDefine("f", <<FuncParam(DoubleType, "a")>>)}

VariableDefines ==
    {VariableDefine(IntType, <<"a">>), VariableDefine(IntType, <<"a", "b">>),
     VariableDefine(IntType, <<"f">>), VariableDefine(DoubleType, <<"a">>)}

AssignStmts ==
    {AssignStmt(Ident("a"), Lit(1)), AssignStmt(Ident("a"), Ident("b")),
     AssignStmt(Ident("a"), Sum2(Ident("b"), Lit(1)))}

IfStmts ==
    {IfStmt(Ident("a"), "GreaterEqual", Ident("b"), ReturnStmt(Ident("a"))),
     IfStmt(Ident("a"), "GreaterEqual", Lit(1), ReturnStmt(Lit(1))),
     IfStmt(Lit(1), "Less", Ident("b"), ReturnStmt(Lit(1))),
     IfNoBody(Ident("a"), "Less", Ident("b")),
     IfStmt(Ident("a"), "Add", Ident("b"), ReturnStmt(Lit(1)))}

ReturnStmts ==
    {ReturnVoid, ReturnStmt(Lit(1)), ReturnStmt(Ident("a")),
     ReturnStmt(Sum2(Ident("a"), Ident("b"))),
     ReturnStmt(Expr(<<Ident("a"), Op("Minus"), Ident("b")>>))}

Unsupported == {Node("ForStmt", <<>>), Node("BreakStmt", <<>>)}

Next ==
    \/ LowerFunction(Functions, MaxNodes)
    \/ LowerVariableDefine(VariableDefines, MaxNodes)
    \/ LowerAssign(AssignStmts, MaxNodes)
    \/ LowerIf(IfStmts, MaxNodes)
    \/ LowerReturn(ReturnStmts, MaxNodes)
    \/ LowerUnsupported(Unsupported, MaxNodes)
    \/ EndFunction
    \/ EndIrGen

Spec == Init /\ [][Next]_vars

(***************************************************************************)
(* SpecVars: functions that declare variables, assign literals to them and *)
(* return additions over them, with up to MaxStmts statements.             *)
(***************************************************************************)
VarsFunctions == {FuncDefine("f", <<>>)}

VarsDefines == {VariableDefine(IntType, <<"a", "b">>), VariableDefine(IntType, <<"b">>)}

VarsAssigns == {AssignStmt(Ident(x), Lit(v)) : x \in {"a", "b"}, v \in {1, 2, MaxInt}}

VarsReturns ==
    {ReturnStmt(Sum2(Ident("a"), Ident("b"))), ReturnStmt(Sum2(Ident("b"), Ident("b"))),
     ReturnStmt(Sum3(Ident("a"), Ident("b"), Ident("a")))}

NextVars ==
    \/ LowerFunction(VarsFunctions, MaxStmts + 1)
    \/ LowerVariableDefine(VarsDefines, MaxStmts + 1)
    \/ LowerAssign(VarsAssigns, MaxStmts + 1)
    \/ LowerReturn(VarsReturns, MaxStmts + 1)
    \/ EndFunction
    \/ EndIrGen

SpecVars == Init /\ [][NextVars]_vars

(***************************************************************************)
(* SpecExpr: functions with a parameter a and a variable b that return     *)
(* additions of one to three operators over the parameter, the variable    *)
(* and literals, with up to MaxStmts statements.                           *)
(***************************************************************************)
ExprFunctions == {FuncDefine("f", <<FuncParam(IntType, "a")>>)}

ExprDefines == {VariableDefine(IntType, <<"b">>)}

ExprAssigns == {AssignStmt(Ident("b"), Lit(v)) : v \in {1, MaxInt}}

ExprReturns ==
    {ReturnStmt(Sum2(Ident("a"), Ident("b"))),
     ReturnStmt(Sum2(Ident("b"), Lit(1))),
     ReturnStmt(Sum2(Lit(1), Lit(1))),
     ReturnStmt(Sum2(Lit(MaxInt), Lit(1))),
     ReturnStmt(Sum3(Lit(1), Lit(1), Ident("b"))),
     ReturnStmt(Sum3(Ident("b"), Lit(1), Lit(1))),
     ReturnStmt(Sum3(Ident("a"), Ident("b"), Ident("a"))),
     ReturnStmt(Expr(<<Lit(1), Op("Add"), Ident("b"), Op("Add"), Lit(1),
                       Op("Add"), Ident("a")>>))}

NextExpr ==
    \/ LowerFunction(ExprFunctions, MaxStmts + 1)
    \/ LowerVariableDefine(ExprDefines, MaxStmts + 1)
    \/ LowerAssign(ExprAssigns, MaxStmts + 1)
    \/ LowerReturn(ExprReturns, MaxStmts + 1)
    \/ EndFunction
    \/ EndIrGen

SpecExpr == Init /\ [][NextExpr]_vars

(***************************************************************************)
(* The source programs the properties speak about, read off `ast`.         *)
(***************************************************************************)
Idents == {"a", "b", "f", "g"}
ArgVals == {MinInt, -1, 1, MaxInt}
RelOps == {"Equal", "NotEqual", "Greater", "GreaterEqual", "Less", "LessEqual"}
Supported == {"FuncDefine", "ReturnStmt", "IfStmt", "VariableDefine", "AssignStmt"}

\* The declaration ir_gen read last and the statement function_gen read last.
LastDecl == ast[Len(ast)]
HasLastStmt == ast # <<>> /\ LastDecl.header.kind = "FuncDefine" /\ LastDecl.body # <<>>
LastStmt == LastDecl.body[Len(LastDecl.body)]

IsIdent(n) == n.kind = "Terminal" /\ n.tok.t = "Identifier"
IsLit(n) == n.kind = "Terminal" /\ n.tok.t = "Number"

\* The parameter names of a function definition, in order.
ParamNames(header) ==
    [i \in 1..Len(FuncParams(header.childs, 3)) |->
        ident_name(FuncParams(header.childs, 3)[i].childs[2])]

RangeOf(seq) == {seq[i] : i \in 1..Len(seq)}

\* The names a variable declaration declares.
DeclaredBy(stmt) == {ident_name(stmt.childs[i]) : i \in 2..Len(stmt.childs)}

\* name is declared by a variable declaration of the body read so far.
DeclaredInBody(name) ==
    \E i \in 1..Len(LastDecl.body) :
        LastDecl.body[i].kind = "VariableDefine" /\ name \in DeclaredBy(LastDecl.body[i])

\* A literal or one of names.
TermOk(n, names) == IsLit(n) \/ (IsIdent(n) /\ n.tok.s \in names)

\* An addition of two or more literals or names.
SumOk(n, names) ==
    /\ n.kind = "Expr"
    /\ Len(n.childs) >= 3
    /\ Len(n.childs) % 2 = 1
    /\ \A i \in 1..Len(n.childs) :
          IF i % 2 = 1 THEN TermOk(n.childs[i], names)
          ELSE n.childs[i].tok = Operator("Add")

OperandOk(n, names) == TermOk(n, names) \/ SumOk(n, names)

\* return <operand>;
ReturnOk(n, names) ==
    n.kind = "ReturnStmt" /\ Len(n.childs) = 1 /\ OperandOk(n.childs[1], names)

\* if (<operand> <relation> <operand>) return <operand>;
IfOk(n, names) ==
    /\ n.kind = "IfStmt"
    /\ Len(n.childs) = 4
    /\ OperandOk(n.childs[1], names)
    /\ n.childs[2].tok \in {Operator(o) : o \in RelOps}
    /\ OperandOk(n.childs[3], names)
    /\ ReturnOk(n.childs[4], names)

\* A function header with int parameters of distinct names.
HeaderOk(header) ==
    /\ header.kind = "FuncDefine"
    /\ Len(header.childs) = 2 + Len(FuncParams(header.childs, 3))
    /\ ParamPanic(FuncParams(header.childs, 3), 1) = ""
    /\ Cardinality(RangeOf(ParamNames(header))) = Len(ParamNames(header))

\* body[i..] is well formed where params and locals are declared: variables
\* are declared once and before their use, assignments go to variables,
\* conditionals have a return as their body, and the one return outside a
\* conditional is the last statement.
RECURSIVE BodyOk(_, _, _, _)
BodyOk(body, i, params, locals) ==
    IF i > Len(body) THEN FALSE
    ELSE IF i = Len(body) THEN ReturnOk(body[i], params \cup locals)
    ELSE CASE body[i].kind = "VariableDefine" ->
                /\ body[i].childs[1] = IntType
                /\ Len(body[i].childs) >= 2
                /\ Cardinality(DeclaredBy(body[i])) = Len(body[i].childs) - 1
                /\ DeclaredBy(body[i]) \cap (params \cup locals \cup {""}) = {}
                /\ BodyOk(body, i + 1, params, locals \cup DeclaredBy(body[i]))
           [] body[i].kind = "AssignStmt" ->
                /\ Len(body[i].childs) = 2
                /\ IsIdent(body[i].childs[1])
                /\ body[i].childs[1].tok.s \in locals
                /\ OperandOk(body[i].childs[2], params \cup locals)
                /\ BodyOk(body, i + 1, params, locals)
           [] body[i].kind = "IfStmt" ->
                IfOk(body[i], params \cup locals) /\ BodyOk(body, i + 1, params, locals)
           [] OTHER -> FALSE

\* A well-formed function built only from the supported constructs.
WellFormedFunction(decl) ==
    HeaderOk(decl.header)
    /\ BodyOk(decl.body, 1, RangeOf(ParamNames(decl.header)), {})

(***************************************************************************)
(* Properties.                                                             *)
(***************************************************************************)
\* ir_gen has ended, with Ok(()) or with a panic.
Ended == gen.pc \in {"done", "panic"}

\* C1: for every well-formed single-function program built only from the
\* supported constructs, ir_gen completes without failure and the module
\* passes verification: every block ends with its one terminator.
C1_WellFormedLowers ==
    (Ended /\ Len(ast) = 1 /\ WellFormedFunction(ast[1]))
        => (gen.pc = "done" /\ Verify(gen.module))

\* The value of a literal or of the name of a parameter under args.
SrcTerm(n, params, args) ==
    IF IsLit(n) THEN n.tok.n
    ELSE args[CHOOSE i \in 1..Len(params) : params[i] = n.tok.s]

\* The sum of the operands childs[i], childs[i + 2], ... of an addition.
RECURSIVE SrcSum(_, _, _, _)
SrcSum(childs, i, params, args) ==
    IF i > Len(childs) THEN 0
    ELSE SrcTerm(childs[i], params, args) + SrcSum(childs, i + 2, params, args)

\* The value of an operand: additions are 64-bit.
SrcOperand(n, params, args) ==
    IF n.kind = "Expr" THEN Wrap(SrcSum(n.childs, 1, params, args))
    ELSE SrcTerm(n, params, args)

\* The signed relation of an operator between two integers.
SrcHolds(op, x, y) ==
    CASE op = Operator("Equal") -> x = y
      [] op = Operator("NotEqual") -> x # y
      [] op = Operator("Greater") -> x > y
      [] op = Operator("GreaterEqual") -> x >= y
      [] op = Operator("Less") -> x < y
      [] op = Operator("LessEqual") -> x <= y

\* The value body[i..] returns: that of the return under the first
\* conditional whose relation holds, else that of the final return.
RECURSIVE SrcRun(_, _, _, _)
SrcRun(body, i, params, args) ==
    IF body[i].kind = "IfStmt"
    THEN IF SrcHolds(body[i].childs[2].tok,
                     SrcOperand(body[i].childs[1], params, args),
                     SrcOperand(body[i].childs[3], params, args))
         THEN SrcOperand(body[i].childs[4].childs[1], params, args)
         ELSE SrcRun(body, i + 1, params, args)
    ELSE SrcOperand(body[i].childs[1], params, args)

\* A function whose body is a sequence of conditionals, each with a return
\* as its body, followed by a final return, over parameters and literals.
IsCondChain(decl) ==
    /\ HeaderOk(decl.header)
    /\ decl.body # <<>>
    /\ \A i \in 1..(Len(decl.body) - 1) :
          IfOk(decl.body[i], RangeOf(ParamNames(decl.header)))
    /\ ReturnOk(decl.body[Len(decl.body)], RangeOf(ParamNames(decl.header)))

\* C2: for every lowered function whose body is a sequence of no-else
\* conditionals, each with a return as its body, followed by a final
\* return, executing the lowered function from its entry block on any
\* integer arguments returns the value of the return under the first
\* conditional whose signed relation holds, else that of the final return.
C2_FirstTrueReturn ==
    \A i \in 1..Len(ast) :
        (~ast[i].open /\ IsCondChain(ast[i])) =>
            \A args \in [1..Len(ParamNames(ast[i].header)) -> ArgVals] :
                Exec(gen.module, i, args)
                    = SrcRun(ast[i].body, 1, ParamNames(ast[i].header), args)

\* The last declaration of name and the last assignment to name among
\* body[1..k-1]; 0 when there is none.
LastDeclOf(body, name, k) ==
    LET at == {i \in 1..(k - 1) :
                  body[i].kind = "VariableDefine" /\ name \in DeclaredBy(body[i])}
    IN  IF at = {} THEN 0 ELSE CHOOSE i \in at : \A j \in at : j <= i

LastAssignOf(body, name, k) ==
    LET at == {i \in 1..(k - 1) :
                  body[i].kind = "AssignStmt" /\ ident_name(body[i].childs[1]) = name}
    IN  IF at = {} THEN 0 ELSE CHOOSE i \in at : \A j \in at : j <= i

\* The sum of the last values assigned to the variables childs[i],
\* childs[i + 2], ... of the addition that body[k] returns.
RECURSIVE LastSum(_, _, _, _)
LastSum(body, k, childs, i) ==
    IF i > Len(childs) THEN 0
    ELSE body[LastAssignOf(body, childs[i].tok.s, k)].childs[2].tok.n
            + LastSum(body, k, childs, i + 2)

\* A function without parameters that declares variables, assigns integer
\* literals to them and, as its last statement, returns an addition over
\* variables that were assigned after they were declared.
IsVarsFunction(decl) ==
    LET body == decl.body
        k == Len(body)
    IN  /\ decl.header.kind = "FuncDefine"
        /\ ParamNames(decl.header) = <<>>
        /\ k >= 1
        /\ \A i \in 1..(k - 1) :
              \/ body[i].kind = "VariableDefine"
              \/ body[i].kind = "AssignStmt" /\ IsLit(body[i].childs[2])
        /\ body[k].kind = "ReturnStmt"
        /\ Len(body[k].childs) = 1
        /\ SumOk(body[k].childs[1], Idents)
        /\ \A i \in 1..Len(body[k].childs[1].childs) :
              i % 2 = 1 =>
                 /\ IsIdent(body[k].childs[1].childs[i])
                 /\ LastAssignOf(body, body[k].childs[1].childs[i].tok.s, k)
                       > LastDeclOf(body, body[k].childs[1].childs[i].tok.s, k)
                 /\ LastDeclOf(body, body[k].childs[1].childs[i].tok.s, k) > 0

\* The sum of the last values assigned that the function returns.
ReturnedSum(decl) ==
    LastSum(decl.body, Len(decl.body), decl.body[Len(decl.body)].childs[1].childs, 1)

\* Distinct names declared in the body read so far are bound to distinct
\* addresses.
DistinctAddresses ==
    gen.pc = "body" =>
        \A x, y \in Idents :
            (DeclaredInBody(x) /\ DeclaredInBody(y) /\ x # y) =>
                /\ is_pointer_value(lookup(gen.symbols, x))
                /\ is_pointer_value(lookup(gen.symbols, y))
                /\ lookup(gen.symbols, x) # lookup(gen.symbols, y)

\* C3 as stated: distinct declared names are bound to distinct addresses
\* and the executed function returns the sum of the last values assigned.
C3_ReturnsSum ==
    /\ DistinctAddresses
    /\ (ast # <<>> /\ ~ast[1].open /\ IsVarsFunction(ast[1])) =>
          Exec(gen.module, 1, <<>>) = ReturnedSum(ast[1])

\* C3: for a function that declares variables, assigns integer literals to
\* them and returns an addition over them, distinct declared names are
\* bound to distinct addresses and the executed function returns the sum
\* of the last values assigned, reduced to the signed 64-bit range (the
\* addition wraps around in two's complement).
C3_ReturnsWrappedSum ==
    /\ DistinctAddresses
    /\ (ast # <<>> /\ ~ast[1].open /\ IsVarsFunction(ast[1])) =>
          Exec(gen.module, 1, <<>>) = Wrap(ReturnedSum(ast[1]))

\* A lowered function of that form one of whose variables was assigned twice and
\* whose sum of the last values assigned exceeds the 64-bit range.
C3_Witness ==
    /\ ast # <<>>
    /\ ~ast[1].open
    /\ IsVarsFunction(ast[1])
    /\ \E i, j \in 1..Len(ast[1].body) :
          /\ i < j
          /\ ast[1].body[i].kind = "AssignStmt"
          /\ ast[1].body[j].kind = "AssignStmt"
          /\ ast[1].body[i].childs[1] = ast[1].body[j].childs[1]
          /\ ast[1].body[i].childs[2] # ast[1].body[j].childs[2]
    /\ ReturnedSum(ast[1]) > MaxInt
    /\ Exec(gen.module, 1, <<>>) = Wrap(ReturnedSum(ast[1]))

\* A node of an unsupported kind was dispatched last.
UnsupportedDispatched ==
    /\ ast # <<>>
    /\ \/ LastDecl.header.kind \notin Supported
       \/ (LastDecl.body # <<>> /\ LastStmt.kind \notin Supported)

\* C4: dispatching a node of a kind without a handler makes lowering fail
\* with an error value handed back to the caller of ir_gen: lowering does
\* not complete with a module, and it does not end in a panic.
C4_UnsupportedIsError ==
    UnsupportedDispatched => (gen.pc # "done" /\ ~Panicked(gen))

GlobalBinding(name) ==
    LET defs == {i \in 1..Len(ast) :
                    ast[i].header.kind = "FuncDefine"
                    /\ ident_name(ast[i].header.childs[2]) = name}
    IN  IF defs = {} THEN NoVal ELSE FnVal(CHOOSE i \in defs : \A j \in defs : j <= i)

\* The parameter of the function being lowered that name denotes.
ParamBinding(name) ==
    LET at == {i \in 1..Len(ParamNames(LastDecl.header)) :
                  ParamNames(LastDecl.header)[i] = name}
    IN  IF at = {} THEN NoVal
        ELSE ArgVal(Len(ast), CHOOSE i \in at : \A j \in at : j <= i)

\* C6: at every point of lowering an identifier resolves to the binding of
\* the innermost open scope that binds it: inside a function body a
\* declared variable resolves to an address, else a parameter name to its
\* parameter, else the name to the global binding; a declaration in a body
\* never changes the global scope's binding, and after the function's scope
\* is popped a name resolves to the global binding or is unresolved.
C6_LexicalScoping ==
    gen.pc \in {"top", "body", "done"} =>
        \A name \in Idents :
            /\ lookup(<<gen.symbols[1]>>, name) = GlobalBinding(name)
            /\ IF gen.pc = "body" /\ DeclaredInBody(name)
               THEN is_pointer_value(lookup(gen.symbols, name))
               ELSE IF gen.pc = "body" /\ ParamBinding(name) # NoVal
               THEN lookup(gen.symbols, name) = ParamBinding(name)
               ELSE lookup(gen.symbols, name) = GlobalBinding(name)

\* A function whose body declared f has returned and f resolves to the
\* function again; a second function with a parameter a is being lowered,
\* has declared a, and a resolves to the address, not to the parameter.
C6_Witness ==
    /\ gen.pc = "body"
    /\ Len(ast) = 2
    /\ \E i \in 1..Len(ast[1].body) :
          ast[1].body[i].kind = "VariableDefine" /\ "f" \in DeclaredBy(ast[1].body[i])
    /\ lookup(gen.symbols, "f") = FnVal(1)
    /\ ParamBinding("a") = ArgVal(2, 1)
    /\ DeclaredInBody("a")
    /\ is_pointer_value(lookup(gen.symbols, "a"))

\* C7: two fresh generators that lower the same tree produce the same
\* module: the same functions, blocks and instructions.
C7_SameModule == gen.module = twin.module

\* C8: whenever a conditional has been lowered, exactly one function handle
\* is reachable through the open scopes, current_function() returns the
\* function being lowered, and the blocks of the conditional belong to it:
\* the cursor stands in the merge block of the function being lowered.
C8_CurrentFunction ==
    (gen.pc = "body" /\ HasLastStmt /\ LastStmt.kind = "IfStmt") =>
        /\ current_function(gen.symbols) = {FnVal(Len(gen.module))}
        /\ gen.builder.f = Len(gen.module)

\* The places of the instructions of a module, and the instruction at one.
InstrSites(module) ==
    UNION {UNION {{<<f, b, i>> : i \in 1..Len(module[f].blocks[b].instrs)} :
                     b \in 1..Len(module[f].blocks)} : f \in 1..Len(module)}
InstrAt(module, s) == module[s[1]].blocks[s[2]].instrs[s[3]]
NewInstrs == InstrSites(gen'.module) \ InstrSites(gen.module)

\* function_gen dispatches a statement of the kind in this step.
Dispatches(kind) ==
    /\ gen.pc = "body"
    /\ ast' # ast
    /\ Len(ast') = Len(ast)
    /\ Len(LastDecl'.body) = Len(LastDecl.body) + 1
    /\ LastStmt'.kind = kind

\* v is the result of a load from address ptr in the module.
LoadedFrom(module, v, ptr) ==
    /\ v.k = "int"
    /\ <<v.f, v.b, v.n>> \in InstrSites(module)
    /\ InstrAt(module, <<v.f, v.b, v.n>>) = Instr("load", ptr, NoVal, NoVal)

\* C9: lowering an assignment emits exactly one store; its destination is
\* the address bound to the target and its stored operand is a value: a
\* literal constant, an expression result or, when the source is an
\* address-bound identifier, the result of a load from that address, never
\* the address itself.
C9_AssignStoresValue ==
    [][(Dispatches("AssignStmt") /\ ~Panicked(gen')) =>
          LET target == LastStmt'.childs[1]
              source == LastStmt'.childs[2]
              stores == {s \in NewInstrs : InstrAt(gen'.module, s).op = "store"}
          IN  /\ Cardinality(stores) = 1
              /\ \A s \in stores :
                    /\ InstrAt(gen'.module, s).y = lookup(gen.symbols, target.tok.s)
                    /\ is_int_value(InstrAt(gen'.module, s).x)
                    /\ (IsIdent(source) /\ is_pointer_value(lookup(gen.symbols, source.tok.s)))
                          => LoadedFrom(gen'.module, InstrAt(gen'.module, s).x,
                                        lookup(gen.symbols, source.tok.s))]_vars

\* An operand of a conditional that resolves: a literal, or an identifier
\* bound to an address or to an integer value.
Resolves(n) ==
    \/ IsLit(n)
    \/ IsIdent(n) /\ (is_pointer_value(lookup(gen.symbols, n.tok.s))
                      \/ is_int_value(lookup(gen.symbols, n.tok.s)))

\* C10: in a conditional whose operands resolve, each operand that is an
\* address-bound identifier, the left or the right one, is loaded before
\* the comparison: lowering does not fail and the comparison emitted has
\* two integer operands.
C10_OperandsLoaded ==
    [][(/\ Dispatches("IfStmt")
        /\ Len(LastStmt'.childs) \in {3, 4}
        /\ LastStmt'.childs[2].tok \in {Operator(o) : o \in RelOps}
        /\ Resolves(LastStmt'.childs[1])
        /\ Resolves(LastStmt'.childs[3])
        /\ Len(LastStmt'.childs) = 4 =>
              (LastStmt'.childs[4].kind = "ReturnStmt"
               /\ Len(LastStmt'.childs[4].childs) = 1
               /\ IsLit(LastStmt'.childs[4].childs[1])))
       => (/\ ~Panicked(gen')
           /\ \A s \in NewInstrs :
                 InstrAt(gen'.module, s).op \in Predicates =>
                    /\ is_int_value(InstrAt(gen'.module, s).x)
                    /\ is_int_value(InstrAt(gen'.module, s).y))]_vars

\* C11: function_gen binds the function's handle under its name in the
\* enclosing scope, then pushes the function's scope, then binds the i-th
\* parameter name to the i-th parameter value in that scope, then lowers
\* the body: when the body loop starts the enclosing scope holds the
\* handle and the function's scope holds exactly the parameters, in order;
\* while the body is lowered a parameter name that no declaration shadows
\* still denotes its parameter; after the function is lowered its handle
\* is still bound in the enclosing scope and no name denotes a parameter.
C11_FunctionGenOrder ==
    (ast # <<>> /\ LastDecl.header.kind = "FuncDefine"
                /\ gen.pc \in {"top", "body", "done"}) =>
        LET fn_name == ident_name(LastDecl.header.childs[2])
            names == ParamNames(LastDecl.header)
        IN  /\ fn_name \in DOMAIN gen.symbols[1]
            /\ gen.symbols[1][fn_name] = FnVal(Len(ast))
            /\ gen.pc = "body" =>
                  /\ Len(gen.symbols) = 2
                  /\ LastDecl.body = <<>> =>
                        /\ DOMAIN gen.symbols[2] = RangeOf(names)
                        /\ Len(gen.module[Len(ast)].blocks) = 1
                        /\ gen.module[Len(ast)].blocks[1].instrs = <<>>
                  /\ \A i \in 1..Len(names) :
                        ~DeclaredInBody(names[i]) =>
                            /\ names[i] \in DOMAIN gen.symbols[2]
                            /\ gen.symbols[2][names[i]] = ArgVal(Len(ast), i)
            /\ gen.pc \in {"top", "done"} =>
                  /\ Len(gen.symbols) = 1
                  /\ \A x \in Idents : lookup(gen.symbols, x).k # "arg"

\* A second function with the parameters a and b was lowered, with a
\* statement in its body, and has returned: g still resolves to its
\* handle, a and b do not resolve.
C11_Witness ==
    /\ gen.pc = "top"
    /\ Len(ast) = 2
    /\ ParamNames(ast[2].header) = <<"a", "b">>
    /\ ast[2].body # <<>>
    /\ lookup(gen.symbols, ident_name(ast[2].header.childs[2])) = FnVal(2)
    /\ lookup(gen.symbols, "a") = NoVal
    /\ lookup(gen.symbols, "b") = NoVal

\* The number of operators of an addition and of its leading literal
\* operands.
OperatorCount(childs) == (Len(childs) - 1) \div 2

RECURSIVE LeadingLits(_, _)
LeadingLits(childs, i) ==
    IF i > Len(childs) \/ ~IsLit(childs[i]) THEN 0
    ELSE 1 + LeadingLits(childs, i + 2)

\* The additions the builder folds: those of a constant accumulator and a
\* literal operand.
Folded(childs) ==
    IF LeadingLits(childs, 1) = 0 THEN 0 ELSE LeadingLits(childs, 1) - 1

\* The sum of the literal operands childs[i], childs[i + 2], ... up to
\* childs[last].
RECURSIVE LitSum(_, _, _)
LitSum(childs, i, last) ==
    IF i > last THEN 0 ELSE childs[i].tok.n + LitSum(childs, i + 2, last)

\* The value of operand n of an expression that body[k] evaluates: a
\* literal, the last value assigned to a declared variable, or the
\* argument of a parameter.
ExprTerm(n, body, k, params, args) ==
    IF IsLit(n) THEN n.tok.n
    ELSE IF LastDeclOf(body, n.tok.s, k) > 0
    THEN body[LastAssignOf(body, n.tok.s, k)].childs[2].tok.n
    ELSE args[CHOOSE i \in 1..Len(params) : params[i] = n.tok.s]

\* The sum of the values of the operands childs[i], childs[i + 2], ...
RECURSIVE ExprSum(_, _, _, _, _, _)
ExprSum(childs, i, body, k, params, args) ==
    IF i > Len(childs) THEN 0
    ELSE ExprTerm(childs[i], body, k, params, args)
            + ExprSum(childs, i + 2, body, k, params, args)

\* body[k] returns an addition whose operands have values: literals,
\* variables assigned a literal after their declaration, parameters; and
\* no return precedes it.
ReturnsAddition(body, k, params) ==
    /\ body[k].kind = "ReturnStmt"
    /\ Len(body[k].childs) = 1
    /\ SumOk(body[k].childs[1], Idents)
    /\ \A i \in 1..(k - 1) :
          \/ body[i].kind = "VariableDefine"
          \/ body[i].kind = "AssignStmt" /\ IsLit(body[i].childs[2])
    /\ \A i \in 1..Len(body[k].childs[1].childs) :
          (i % 2 = 1 /\ IsIdent(body[k].childs[1].childs[i])) =>
             LET x == body[k].childs[1].childs[i].tok.s
             IN  IF LastDeclOf(body, x, k) > 0
                 THEN LastAssignOf(body, x, k) > LastDeclOf(body, x, k)
                 ELSE x \in RangeOf(params)

\* The add instructions of this step, and the j-th of them in the order of
\* emission.
NewAdds == {s \in NewInstrs : InstrAt(gen'.module, s).op = "add"}
NewAdd(j) == CHOOSE s \in NewAdds : Cardinality({t \in NewAdds : t[3] < s[3]}) = j - 1

\* v is the value operand n contributes: the constant of a literal, the
\* value bound to a register-bound name, or the result of a load from the
\* address bound to an address-bound name, emitted in this step before
\* the instruction at site s.
Contributes(n, v, s) ==
    IF IsLit(n) THEN v = ConstVal(n.tok.n)
    ELSE IF is_pointer_value(lookup(gen.symbols, n.tok.s))
    THEN /\ LoadedFrom(gen'.module, v, lookup(gen.symbols, n.tok.s))
         /\ <<v.f, v.b, v.n>> \in NewInstrs
         /\ v.n < s[3]
    ELSE v = lookup(gen.symbols, n.tok.s)

\* The j-th add of this step combines the accumulator of the operands
\* before it with the next operand of childs, where skipped additions of
\* leading literals were folded into a constant.
AddInOrder(childs, j, skipped) ==
    LET s == NewAdd(j)
        ins == InstrAt(gen'.module, s)
    IN  /\ <<s[1], s[2]>> = <<gen.builder.f, gen.builder.b>>
        /\ Contributes(childs[2 * (j + skipped) + 1], ins.y, s)
        /\ IF j > 1 THEN ins.x = Val("int", s[1], s[2], NewAdd(j - 1)[3])
           ELSE IF IsLit(childs[1])
           THEN ins.x = ConstVal(Wrap(LitSum(childs, 1, 2 * skipped + 1)))
           ELSE Contributes(childs[1], ins.x, s)

\* function_gen dispatches, as the next statement, a return of an addition
\* whose operands have values, and the return is lowered.
EvaluatesAddition ==
    /\ Dispatches("ReturnStmt")
    /\ ReturnsAddition(LastDecl'.body, Len(LastDecl'.body), ParamNames(LastDecl.header))
    /\ ~Panicked(gen')

\* The executed function returns v for all arguments.
ReturnsValue(v(_)) ==
    \A args \in [1..Len(ParamNames(LastDecl.header)) -> ArgVals] :
        Exec(gen'.module, Len(ast), args) = v(args)

\* C12 as stated: an addition of k operators is evaluated with exactly k
\* add instructions, the i-th combining the accumulator of the first i
\* operands with operand i + 1, and its value is the sum of the operands.
C12_ExactlyKAdds ==
    [][EvaluatesAddition =>
          LET childs == LastStmt'.childs[1].childs
              body == LastDecl'.body
              sum(args) == ExprSum(childs, 1, body, Len(body),
                                   ParamNames(LastDecl.header), args)
          IN  /\ Cardinality(NewAdds) = OperatorCount(childs)
              /\ \A j \in 1..Cardinality(NewAdds) : AddInOrder(childs, j, 0)
              /\ ReturnsValue(sum)]_vars

\* C12: an addition of k operators over operands with values is
\* evaluated, left to right, with one add instruction for each operator
\* except the additions of leading literal operands, which the builder
\* folds into a constant without an instruction; the i-th add emitted
\* combines the accumulator of the operands before it with the next
\* operand, an address-bound operand contributing the value loaded from
\* its address; the value returned, a register or a constant, is the sum
\* of the operand values reduced to the signed 64-bit range.
C12_AddsFoldLeftToRight ==
    [][EvaluatesAddition =>
          LET childs == LastStmt'.childs[1].childs
              body == LastDecl'.body
              sum(args) == Wrap(ExprSum(childs, 1, body, Len(body),
                                        ParamNames(LastDecl.header), args))
          IN  /\ Cardinality(NewAdds) = OperatorCount(childs) - Folded(childs)
              /\ \A j \in 1..Cardinality(NewAdds) :
                    AddInOrder(childs, j, Folded(childs))
              /\ ReturnsValue(sum)]_vars

\* An addition of three operators, 1 + b + 1 + a with b a variable that
\* was assigned and a a parameter, was evaluated by the last return: three
\* adds and a load are in the entry block before the return.
C12_Witness ==
    /\ gen.pc = "body"
    /\ HasLastStmt
    /\ ReturnsAddition(LastDecl.body, Len(LastDecl.body), ParamNames(LastDecl.header))
    /\ OperatorCount(LastStmt.childs[1].childs) = 3
    /\ Folded(LastStmt.childs[1].childs) = 0
    /\ is_pointer_value(lookup(gen.symbols, "b"))
    /\ Cardinality({s \in InstrSites(gen.module) :
                       InstrAt(gen.module, s).op = "add"}) = 3
    /\ Exec(gen.module, 1, <<MaxInt>>)
          = Wrap(ExprSum(LastStmt.childs[1].childs, 1, LastDecl.body,
                         Len(LastDecl.body), <<"a">>, <<MaxInt>>))

\* The blocks of a module, the instructions of one, and whether a block
\* exists in a module.
BlockInstrs(module, bb) == module[bb.f].blocks[bb.b].instrs
BlockExists(module, bb) ==
    bb.k = "bb" /\ bb.f \in 1..Len(module) /\ bb.b \in 1..Len(module[bb.f].blocks)
Blocks(module) ==
    UNION {{BlockRef(f, b) : b \in 1..Len(module[f].blocks)} : f \in 1..Len(module)}

\* The blocks of a module that hold a conditional branch, and the blocks a
\* conditional branch enters on its true edge.
BranchBlocks(module) ==
    {bb \in Blocks(module) :
        \E i \in 1..Len(BlockInstrs(module, bb)) : BlockInstrs(module, bb)[i].op = "br"}
ThenBlocks(module) ==
    {InstrAt(module, s).y : s \in {t \in InstrSites(module) : InstrAt(module, t).op = "br"}}

\* A statement of a body that already holds a conditional is dispatched.
DispatchesAfterConditional ==
    /\ gen.pc = "body"
    /\ ast' # ast
    /\ Len(ast') = Len(ast)
    /\ \E i \in 1..Len(LastDecl.body) : LastDecl.body[i].kind = "IfStmt"

\* C13: after a conditional is lowered, with or without a body, the block
\* that was current before it ends with the conditional branch, whose true
\* edge enters the then block and whose false edge enters the merge block,
\* both created by this conditional, and the cursor is at the end of the
\* merge block, which is empty; the instructions of the conditional are in
\* the block before and, those of its body, in the then block;
\* every instruction that a later statement of the function emits goes to
\* the block the cursor was left in or to a block created later, never to
\* a then block or to a block that ends with a conditional branch.
C13_CursorAtMergeBlock ==
    [][/\ (Dispatches("IfStmt") /\ ~Panicked(gen')) =>
             LET before == BlockInstrs(gen'.module, gen.builder)
                 br == before[Len(before)]
             IN  /\ before # <<>>
                 /\ br.op = "br"
                 /\ BlockExists(gen'.module, br.y) /\ ~BlockExists(gen.module, br.y)
                 /\ BlockExists(gen'.module, br.z) /\ ~BlockExists(gen.module, br.z)
                 /\ br.y # br.z
                 /\ gen'.module[br.y.f].blocks[br.y.b].label = "if"
                 /\ gen'.module[br.z.f].blocks[br.z.b].label = "endif"
                 /\ gen'.builder = br.z
                 /\ BlockInstrs(gen'.module, br.z) = <<>>
                 /\ \A s \in NewInstrs : BlockRef(s[1], s[2]) \in {gen.builder, br.y}
                 /\ Len(LastStmt'.childs) = 3 => BlockInstrs(gen'.module, br.y) = <<>>
       /\ DispatchesAfterConditional =>
             \A s \in NewInstrs :
                 LET bb == BlockRef(s[1], s[2])
                 IN  /\ bb \notin ThenBlocks(gen.module)
                     /\ bb \notin BranchBlocks(gen.module)
                     /\ bb = gen.builder \/ ~BlockExists(gen.module, bb)]_vars

\* A conditional without a body was lowered and then a return: the entry
\* block ends with the conditional branch, the then block is empty and the
\* return is in the merge block, where the cursor is.
C13_Witness ==
    /\ gen.pc = "body"
    /\ Len(ast) = 1
    /\ Len(LastDecl.body) = 2
    /\ LastDecl.body[1].kind = "IfStmt"
    /\ Len(LastDecl.body[1].childs) = 3
    /\ LastDecl.body[2].kind = "ReturnStmt"
    /\ Len(gen.module[1].blocks) = 3
    /\ gen.module[1].blocks[1].instrs[Len(gen.module[1].blocks[1].instrs)].op = "br"
    /\ gen.module[1].blocks[2].instrs = <<>>
    /\ gen.builder = BlockRef(1, 3)
    /\ Len(gen.module[1].blocks[3].instrs) = 1
    /\ gen.module[1].blocks[3].instrs[1].op = "ret"

\* The identifiers a node uses, and the operators of its expressions.
RECURSIVE UsedIdents(_)
UsedIdents(n) ==
    IF IsIdent(n) THEN {n.tok.s}
    ELSE UNION {UsedIdents(n.childs[i]) : i \in 1..Len(n.childs)}

RECURSIVE ExprOperators(_)
ExprOperators(n) ==
    (IF n.kind = "Expr"
     THEN {n.childs[i].tok : i \in {j \in 1..Len(n.childs) : j % 2 = 0}}
     ELSE {})
    \cup UNION {ExprOperators(n.childs[i]) : i \in 1..Len(n.childs)}

\* Lowering node n fails where symbols are the bindings: its kind has no
\* handler, an expression of it has an operator other than addition, its
\* conditional has an operator that is no relation, it uses an identifier
\* that does not resolve, or it assigns to a target that is bound to no
\* address.
Fails(n, symbols) ==
    \/ n.kind \notin Supported
    \/ /\ n.kind \in {"ReturnStmt", "IfStmt", "AssignStmt"}
       /\ \/ ExprOperators(n) \ {Operator("Add")} # {}
          \/ \E x \in UsedIdents(n) : lookup(symbols, x) = NoVal
          \/ n.kind = "IfStmt" /\ Len(n.childs) >= 3
                /\ n.childs[2].tok \notin {Operator(o) : o \in RelOps}
          \/ n.kind = "AssignStmt" /\ Len(n.childs) = 2
                /\ IsIdent(n.childs[1])
                /\ ~is_pointer_value(lookup(symbols, n.childs[1].tok.s))

\* The node dispatched in this step: a statement of the body or a child
\* of the root.
DispatchedNode ==
    IF Len(ast') = Len(ast) THEN LastStmt' ELSE LastDecl'.header

\* C14: when lowering a node fails (a kind without a handler, an
\* unsupported operator, an unresolved identifier, a target that is not
\* assignable), lowering ends in that failure: the failure is raised in
\* the step that dispatches the node, through ir_gen to its caller; after
\* it no instruction is emitted, no statement and no declaration is
\* lowered and nothing of the generator changes, and ir_gen does not
\* return success.
C14_FirstFailureStops ==
    [][/\ ~Panicked(gen)
       /\ NodeCount(ast') > NodeCount(ast) =>
                        (/\ Fails(DispatchedNode, gen.symbols) =>
                               (Panicked(gen') /\ gen'.err # "")
                         /\ Panicked(gen') =>
                               /\ gen'.err # ""
                               /\ Len(gen'.symbols) = 1)
       /\ gen'.pc = "done" => (gen.pc = "top" /\ UNCHANGED gen.module)]_vars

\* The second statement of a body, an assignment from an identifier that
\* does not resolve, failed after the first statement had emitted an
\* instruction.
C14_Witness ==
    /\ Panicked(gen)
    /\ gen.err = "unreachable"
    /\ HasLastStmt
    /\ Len(LastDecl.body) = 2
    /\ LastStmt.kind = "AssignStmt"
    /\ \E x \in UsedIdents(LastStmt) : lookup(gen.symbols, x) = NoVal
    /\ InstrSites(gen.module) # {}

====
